---------------------------- MODULE Spec2Model ----------------------------
(***************************************************************************)
(* A state-machine model of the middle_earth_ai_program on-chain program:  *)
(* the agent registry, the cooldown gates, the alliance registry, the      *)
(* share-based stake vault and the battle settlement engine.               *)
(*                                                                         *)
(* Every instruction handler is one action.  An instruction that returns   *)
(* an error commits nothing (the runtime discards the account writes and   *)
(* the token transfers of a failed instruction), so a failing call changes *)
(* only the history variable `last`, which records the call and its        *)
(* outcome.                                                                *)
(***************************************************************************)
EXTENDS Integers, Sequences, FiniteSets, TLC

(***************************************************************************)
(* Bounds of the model.                                                    *)
(***************************************************************************)
NumAgents == 5
NumStakers == 2
MaxDeposit == 2
WalletInit == 2
StartTime == 100000
\* The balance domain: amounts are unsigned and checked against this maximum.
U64_MAX == 1000000

(***************************************************************************)
(* Program constants.                                                      *)
(***************************************************************************)
MAP_DIAMETER == 1000
MAX_AGENTS == 4
MAX_ALLIANCES == 5
ONE_HOUR == 3600
BATTLE_COOLDOWN == 14400
AGENT_VS_ALLIANCE_COOLDOWN == 3500
ALLIANCE_VS_ALLIANCE_COOLDOWN == 3600
SIMPLE_BATTLE_COOLDOWN == 3600

Agents == 1 .. NumAgents
\* The agent whose vault the stakers deposit into.
VaultAgents == {1}
Stakers == 1 .. NumStakers
\* The key of the game authority; every other key is some other signer.
Authority == 0
Callers == {Authority, 1}
None == -1

VARIABLES game, agent, stake, token, now, last

vars == <<game, agent, stake, token, now, last>>

(***************************************************************************)
(* Token accounts of the ledger: one per agent (the agent's vault, which   *)
(* is also the account a battle settles), one per staker, and the rewards  *)
(* vault.                                                                  *)
(***************************************************************************)
VaultOf(a) == <<"agent", a>>
WalletOf(s) == <<"staker", s>>
RewardsVault == <<"rewards", 0>>
Accounts ==
    {VaultOf(a) : a \in Agents} \cup {WalletOf(s) : s \in Stakers} \cup {RewardsVault}

\* token::transfer of the SPL token program: it fails when the source holds
\* less than the amount, and a transfer of an account to itself moves nothing.
CanTransfer(tok, from, amount) == tok[from] >= amount

\* A transfer that credits the destination and leaves the source as it was.
TransferCreditOnly(tok, from, to, amount) == [tok EXCEPT ![to] = @ + amount]

Transfer(tok, from, to, amount) ==
    IF from = to THEN tok
    ELSE [tok EXCEPT ![from] = @ - amount, ![to] = @ + amount]

(***************************************************************************)
(* Records.                                                                *)
(***************************************************************************)
NewAgent(x, y) ==
    [ exists |-> TRUE, x |-> x, y |-> y, is_alive |-> TRUE,
      last_move |-> 0, next_move_time |-> 0, last_attack |-> 0,
      last_ignore |-> 0, last_alliance |-> 0,
      alliance_with |-> None, alliance_timestamp |-> 0,
      battle_start_time |-> None,
      total_shares |-> 0, staked_balance |-> 0 ]

NoAgent == [NewAgent(0, 0) EXCEPT !.exists = FALSE, !.is_alive = FALSE]

NoStake ==
    [ is_initialized |-> FALSE, amount |-> 0, shares |-> 0,
      last_reward_timestamp |-> 0, cooldown_ends_at |-> 0 ]

Call(op, res, who, by, n) ==
    [op |-> op, res |-> res, who |-> who, by |-> by, n |-> n]

\* An instruction that returns an error: nothing is committed.
Fail(op, err, who, by, n) ==
    /\ last' = Call(op, err, who, by, n)
    /\ UNCHANGED <<game, agent, stake, token, now>>

(***************************************************************************)
(* initialize_game, then register_agent for every agent, with the token    *)
(* accounts funded.                                                        *)
(***************************************************************************)
InitGame ==
    [ is_active |-> TRUE, alliances |-> <<>>, agents |-> {},
      total_stake_accounts |-> <<>>, daily_reward_tokens |-> 0 ]

\* The stakers' wallets are funded and every vault is empty.
StakeToken == [acc \in Accounts |-> IF acc[1] = "staker" THEN WalletInit ELSE 0]

\* The agents 1 .. k are registered.
RegisteredUpTo(k, tok) ==
    /\ game = [InitGame EXCEPT !.agents = 1 .. k]
    /\ agent = [a \in Agents |-> IF a <= k THEN NewAgent(0, 0) ELSE NoAgent]
    /\ stake = [s \in Agents \X Stakers |-> NoStake]
    /\ token = tok
    /\ now = StartTime
    /\ last = Call("register_agent", "Ok", <<k>>, Authority, 0)

Registered(tok) == RegisteredUpTo(MAX_AGENTS, tok)

InitStake == Registered(StakeToken)

(***************************************************************************)
(* The stake vault.                                                        *)
(***************************************************************************)
\* The index of the staker's entry in game.total_stake_accounts, or 0.
FindStake(accts, staker) ==
    IF \E i \in 1 .. Len(accts) : accts[i].staker = staker
    THEN CHOOSE i \in 1 .. Len(accts) :
            /\ accts[i].staker = staker
            /\ \A j \in 1 .. (i - 1) : accts[j].staker # staker
    ELSE 0

add_stake_to_game(accts, staker, amount) ==
    LET i == FindStake(accts, staker) IN
    IF i > 0 THEN [accts EXCEPT ![i].total_stake = @ + amount]
    ELSE Append(accts, [staker |-> staker, total_stake |-> amount])

\* checked_sub: the entry, when there is one, must hold at least the amount.
remove_stake_ok(accts, staker, amount) ==
    LET i == FindStake(accts, staker) IN
    i > 0 => accts[i].total_stake >= amount

remove_stake_from_game(accts, staker, amount) ==
    LET i == FindStake(accts, staker) IN
    IF i > 0 THEN [accts EXCEPT ![i].total_stake = @ - amount] ELSE accts

\* A payout rounded up instead of down.
WithdrawAmountRoundedUp(shares_to_redeem, vault_balance, total_shares) ==
    (shares_to_redeem * vault_balance + total_shares - 1) \div total_shares

\* A withdrawal that pays one token per share.
WithdrawAmountPerShare(shares_to_redeem, vault_balance, total_shares) == shares_to_redeem

\* withdraw_amount of unstake_tokens.
WithdrawAmount(shares_to_redeem, vault_balance, total_shares) ==
    (shares_to_redeem * vault_balance) \div total_shares

\* A mint without the first-deposit rule.
SharesToMintNoFirstDeposit(deposit_amount, vault_balance_before, total_shares) ==
    (deposit_amount * total_shares) \div vault_balance_before

\* shares_to_mint, from the vault balance the handler reads (which it reads
\* after the deposit has been transferred into the vault).
SharesToMint(deposit_amount, vault_balance_before, total_shares) ==
    IF vault_balance_before = deposit_amount \/ total_shares = 0
    THEN deposit_amount
    ELSE (deposit_amount * total_shares) \div vault_balance_before

\* The first deposit's record with the deposited amount booked as the shares.
NewStakeInfoAmountAsShares(deposit_amount, shares_to_mint, t) ==
    [ is_initialized |-> TRUE, amount |-> deposit_amount,
      shares |-> deposit_amount, last_reward_timestamp |-> 0,
      cooldown_ends_at |-> t + ONE_HOUR ]

\* The StakeInfo record initialize_stake writes.
NewStakeInfo(deposit_amount, shares_to_mint, t) ==
    [ is_initialized |-> TRUE, amount |-> deposit_amount,
      shares |-> shares_to_mint, last_reward_timestamp |-> 0,
      cooldown_ends_at |-> t + ONE_HOUR ]

initialize_stake(a, s, deposit_amount) ==
    LET op == "initialize_stake"
        tok1 == Transfer(token, WalletOf(s), VaultOf(a), deposit_amount)
        vault_balance_before == tok1[VaultOf(a)]
        shares_to_mint ==
            SharesToMint(deposit_amount, vault_balance_before, agent[a].total_shares)
    IN
    IF ~agent[a].exists THEN Fail(op, "AccountNotInitialized", <<a>>, s, deposit_amount)
    ELSE IF stake[a, s].is_initialized THEN Fail(op, "AccountInUse", <<a>>, s, deposit_amount)
    ELSE IF ~(deposit_amount > 0) THEN Fail(op, "InvalidAmount", <<a>>, s, deposit_amount)
    ELSE IF ~CanTransfer(token, WalletOf(s), deposit_amount)
         THEN Fail(op, "TokenInsufficientFunds", <<a>>, s, deposit_amount)
    ELSE
        /\ token' = tok1
        /\ agent' = [agent EXCEPT ![a].total_shares = @ + shares_to_mint,
                                  ![a].staked_balance = @ + deposit_amount]
        /\ stake' = [stake EXCEPT ![a, s] =
                        NewStakeInfo(deposit_amount, shares_to_mint, now)]
        /\ game' = [game EXCEPT !.total_stake_accounts =
                        add_stake_to_game(@, s, deposit_amount)]
        /\ last' = Call(op, "Ok", <<a>>, s, deposit_amount)
        /\ UNCHANGED now

stake_tokens(a, s, deposit_amount) ==
    LET op == "stake_tokens"
        tok1 == Transfer(token, WalletOf(s), VaultOf(a), deposit_amount)
        vault_balance_before == tok1[VaultOf(a)]
        shares_to_mint ==
            SharesToMint(deposit_amount, vault_balance_before, agent[a].total_shares)
    IN
    IF ~agent[a].exists \/ ~stake[a, s].is_initialized
    THEN Fail(op, "AccountNotInitialized", <<a>>, s, deposit_amount)
    ELSE IF ~(deposit_amount > 0) THEN Fail(op, "InvalidAmount", <<a>>, s, deposit_amount)
    ELSE IF ~CanTransfer(token, WalletOf(s), deposit_amount)
         THEN Fail(op, "TokenInsufficientFunds", <<a>>, s, deposit_amount)
    ELSE
        /\ token' = tok1
        /\ agent' = [agent EXCEPT ![a].total_shares = @ + shares_to_mint,
                                  ![a].staked_balance = @ + deposit_amount]
        /\ stake' = [stake EXCEPT ![a, s].amount = @ + deposit_amount,
                                  ![a, s].shares = @ + shares_to_mint,
                                  ![a, s].cooldown_ends_at = now + ONE_HOUR]
        /\ game' = [game EXCEPT !.total_stake_accounts =
                        add_stake_to_game(@, s, deposit_amount)]
        /\ last' = Call(op, "Ok", <<a>>, s, deposit_amount)
        /\ UNCHANGED now

unstake_tokens(a, s, shares_to_redeem) ==
    LET op == "unstake_tokens"
        vault_balance == token[VaultOf(a)]
        total_shares == agent[a].total_shares
        withdraw_amount == WithdrawAmount(shares_to_redeem, vault_balance, total_shares)
    IN
    IF ~agent[a].exists \/ ~stake[a, s].is_initialized
    THEN Fail(op, "AccountNotInitialized", <<a>>, s, shares_to_redeem)
    ELSE IF ~(shares_to_redeem > 0) THEN Fail(op, "InvalidAmount", <<a>>, s, shares_to_redeem)
    ELSE IF ~(stake[a, s].shares >= shares_to_redeem)
         THEN Fail(op, "NotEnoughTokens", <<a>>, s, shares_to_redeem)
    ELSE IF total_shares = 0 THEN Fail(op, "NotEnoughTokens", <<a>>, s, shares_to_redeem)
    ELSE IF \/ total_shares < shares_to_redeem
            \/ agent[a].staked_balance < withdraw_amount
            \/ stake[a, s].amount < withdraw_amount
            \/ ~remove_stake_ok(game.total_stake_accounts, s, withdraw_amount)
         THEN Fail(op, "NotEnoughTokens", <<a>>, s, shares_to_redeem)
    ELSE IF ~CanTransfer(token, VaultOf(a), withdraw_amount)
         THEN Fail(op, "TokenInsufficientFunds", <<a>>, s, shares_to_redeem)
    ELSE
        /\ agent' = [agent EXCEPT ![a].total_shares = @ - shares_to_redeem,
                                  ![a].staked_balance = @ - withdraw_amount]
        /\ stake' = [stake EXCEPT ![a, s].amount = @ - withdraw_amount,
                                  ![a, s].shares = @ - shares_to_redeem]
        /\ game' = [game EXCEPT !.total_stake_accounts =
                        remove_stake_from_game(@, s, withdraw_amount)]
        /\ token' = Transfer(token, VaultOf(a), WalletOf(s), withdraw_amount)
        /\ last' = Call(op, "Ok", <<a>>, s, shares_to_redeem)
        /\ UNCHANGED now

(***************************************************************************)
(* The stake vault alone: deposits and withdrawals of the stakers.         *)
(***************************************************************************)
DepositAmounts == 0 .. MaxDeposit
RedeemAmounts == 0 .. WalletInit

InitializeStake ==
    \E a \in VaultAgents, s \in Stakers, d \in DepositAmounts : initialize_stake(a, s, d)
StakeTokens ==
    \E a \in VaultAgents, s \in Stakers, d \in DepositAmounts : stake_tokens(a, s, d)
UnstakeTokens ==
    \E a \in VaultAgents, s \in Stakers, r \in RedeemAmounts : unstake_tokens(a, s, r)

NextStake == InitializeStake \/ StakeTokens \/ UnstakeTokens

SpecStake == InitStake /\ [][NextStake]_vars

(***************************************************************************)
(* Two stakers and the vaults of two agents.                               *)
(***************************************************************************)
SharedAgents == {1, 2}

InitializeStakeShared ==
    \E a \in SharedAgents, s \in Stakers, d \in {1, MaxDeposit} : initialize_stake(a, s, d)
UnstakeTokensShared ==
    \E a \in SharedAgents, s \in Stakers : unstake_tokens(a, s, 1)

NextShared == InitializeStakeShared \/ UnstakeTokensShared

SpecShared == InitStake /\ [][NextShared]_vars

(***************************************************************************)
(* The clock.                                                              *)
(***************************************************************************)
\* Clock::get()?.unix_timestamp: between two instructions the timestamp moves
\* forward to a later reading.
Tick(readings) ==
    /\ \E t \in readings : t > now /\ now' = t
    /\ last' = Call("clock", "Ok", <<>>, None, 0)
    /\ UNCHANGED <<game, agent, stake, token>>

\* Agent::validate_attack: the attack gate.
validate_attack(ag, t) == t >= ag.last_attack + BATTLE_COOLDOWN

(***************************************************************************)
(* The battle engine.  A participant's token account is its agent's        *)
(* account VaultOf(a); the handlers take the participants as separate      *)
(* accounts and never compare them, so one agent may be named twice.       *)
(***************************************************************************)
Range(who) == {who[i] : i \in 1 .. Len(who)}

\* The three start_battle_* handlers: every participant alive, none in a
\* battle, then battle_start_time = Some(now) for every participant.
\* A start that enrolls agents already in a battle.
start_battle_again(op, who) ==
    IF \E a \in Range(who) : ~agent[a].exists
    THEN Fail(op, "AccountNotInitialized", who, None, 0)
    ELSE IF \E a \in Range(who) : ~agent[a].is_alive
    THEN Fail(op, "AgentNotAlive", who, None, 0)
    ELSE
        /\ agent' = [a \in Agents |->
                        IF a \in Range(who)
                        THEN [agent[a] EXCEPT !.battle_start_time = now]
                        ELSE agent[a]]
        /\ last' = Call(op, "Ok", who, None, 0)
        /\ UNCHANGED <<game, stake, token, now>>

start_battle(op, who) ==
    IF \E a \in Range(who) : ~agent[a].exists
    THEN Fail(op, "AccountNotInitialized", who, None, 0)
    ELSE IF \E a \in Range(who) : ~agent[a].is_alive
    THEN Fail(op, "AgentNotAlive", who, None, 0)
    ELSE IF \E a \in Range(who) : agent[a].battle_start_time # None
    THEN Fail(op, "BattleAlreadyStarted", who, None, 0)
    ELSE
        /\ agent' = [a \in Agents |->
                        IF a \in Range(who)
                        THEN [agent[a] EXCEPT !.battle_start_time = now]
                        ELSE agent[a]]
        /\ last' = Call(op, "Ok", who, None, 0)
        /\ UNCHANGED <<game, stake, token, now>>

start_battle_simple(winner, loser) ==
    start_battle("start_battle_simple", <<winner, loser>>)

start_battle_agent_vs_alliance(attacker, alliance_leader, alliance_partner) ==
    start_battle("start_battle_agent_vs_alliance",
                 <<attacker, alliance_leader, alliance_partner>>)

start_battle_alliance_vs_alliance(leader_a, partner_a, leader_b, partner_b) ==
    start_battle("start_battle_alliance_vs_alliance",
                 <<leader_a, partner_a, leader_b, partner_b>>)

\* A stamp of the first participant only.
ResolvedFirstOnly(who) ==
    [agent EXCEPT ![who[1]].last_attack = now, ![who[1]].battle_start_time = None]

\* last_attack = now and battle_start_time = None for every participant.
Resolved(who) ==
    [a \in Agents |->
        IF a \in Range(who)
        THEN [agent[a] EXCEPT !.last_attack = now, !.battle_start_time = None]
        ELSE agent[a]]

\* A product that is never found to overflow.
MulNeverOverflows(balance, percent_lost) == TRUE

\* balance.checked_mul(percent_lost).checked_div(100)
MulOk(balance, percent_lost) == balance * percent_lost <= U64_MAX

\* A loss of the whole balance whatever the percentage.
LostAmountWhole(balance, percent_lost) == balance

LostAmount(balance, percent_lost) == (balance * percent_lost) \div 100

\* A leader charged the whole loss.
LeaderDeductionAll(total_lost, leader_amount, alliance_balance) == total_lost

\* The leader's share of the loss, proportional to its balance.
LeaderDeduction(total_lost, leader_amount, alliance_balance) ==
    IF alliance_balance > 0
    THEN (total_lost * leader_amount) \div alliance_balance
    ELSE 0

\* One token::transfer of a settlement on the ledger r.tok; r.ok turns FALSE
\* when the token program rejects it.
Pay(r, from, to, amount) ==
    IF ~r.ok THEN r
    ELSE IF CanTransfer(r.tok, from, amount)
    THEN [ok |-> TRUE, tok |-> Transfer(r.tok, from, to, amount)]
    ELSE [ok |-> FALSE, tok |-> r.tok]

\* A transfer the handler makes only when the amount is positive.
PayIfPositive(r, from, to, amount) ==
    IF amount > 0 THEN Pay(r, from, to, amount) ELSE r

Ledger == [ok |-> TRUE, tok |-> token]

\* A settlement that keeps the stamps of a call the token program rejected.
SettleStamped(op, who, caller, n, paid) ==
    /\ agent' = [a \in Agents |->
                    IF a \in {who[i] : i \in 1 .. Len(who)}
                    THEN [agent[a] EXCEPT !.last_attack = now,
                                          !.battle_start_time = None]
                    ELSE agent[a]]
    /\ token' = paid.tok
    /\ last' = Call(op, IF paid.ok THEN "Ok" ELSE "TokenInsufficientFunds",
                    who, caller, n)
    /\ UNCHANGED <<game, stake, now>>

\* The outcome of a resolve_battle_* call whose checks have passed: the
\* participants are stamped and the ledger after the transfers is committed,
\* or the token program has rejected a transfer and nothing is.
Settle(op, who, caller, n, paid) ==
    IF ~paid.ok THEN Fail(op, "TokenInsufficientFunds", who, caller, n)
    ELSE
        /\ agent' = Resolved(who)
        /\ token' = paid.tok
        /\ last' = Call(op, "Ok", who, caller, n)
        /\ UNCHANGED <<game, stake, now>>

\* The readiness test that admits a resolve one second late.
BattleReadyStrict(battle_start, cooldown, t) == t > battle_start + cooldown

\* The readiness test of a resolve: the battle is at least cooldown seconds old.
BattleReady(battle_start, cooldown, t) == t >= battle_start + cooldown

resolve_battle_simple(caller, winner, loser, percent_lost) ==
    LET op == "resolve_battle_simple"
        who == <<winner, loser>>
        n == percent_lost
        battle_start == agent[loser].battle_start_time
        loser_amount == token[VaultOf(loser)]
        lost_amount == LostAmount(loser_amount, percent_lost)
    IN
    IF \E a \in Range(who) : ~agent[a].exists
    THEN Fail(op, "AccountNotInitialized", who, caller, n)
    ELSE IF caller # Authority THEN Fail(op, "Unauthorized", who, caller, n)
    ELSE IF battle_start = None THEN Fail(op, "BattleNotStarted", who, caller, n)
    ELSE IF ~BattleReady(battle_start, SIMPLE_BATTLE_COOLDOWN, now)
    THEN Fail(op, "BattleNotReadyToResolve", who, caller, n)
    ELSE IF ~validate_attack(agent[winner], now) \/ ~validate_attack(agent[loser], now)
    THEN Fail(op, "BattleCooldown", who, caller, n)
    ELSE IF ~MulOk(loser_amount, percent_lost)
    THEN Fail(op, "InsufficientFunds", who, caller, n)
    ELSE Settle(op, who, caller, n,
                Pay(Ledger, VaultOf(loser), VaultOf(winner), lost_amount))

resolve_battle_agent_vs_alliance(caller, single_agent, alliance_leader, alliance_partner, percent_lost, agent_is_winner) ==
    LET op == "resolve_battle_agent_vs_alliance"
        who == <<single_agent, alliance_leader, alliance_partner>>
        n == <<percent_lost, agent_is_winner>>
        battle_start == agent[single_agent].battle_start_time
        single_balance == token[VaultOf(single_agent)]
        leader_amount == token[VaultOf(alliance_leader)]
        partner_amount == token[VaultOf(alliance_partner)]
        alliance_balance == leader_amount + partner_amount
        total_lost == LostAmount(alliance_balance, percent_lost)
        leader_deduction == LeaderDeduction(total_lost, leader_amount, alliance_balance)
        partner_deduction == total_lost - leader_deduction
        lost_amount == LostAmount(single_balance, percent_lost)
        half_loss == lost_amount \div 2
        remainder == lost_amount - half_loss
    IN
    IF \E a \in Range(who) : ~agent[a].exists
    THEN Fail(op, "AccountNotInitialized", who, caller, n)
    ELSE IF caller # Authority THEN Fail(op, "Unauthorized", who, caller, n)
    ELSE IF battle_start = None THEN Fail(op, "BattleNotStarted", who, caller, n)
    ELSE IF ~BattleReady(battle_start, AGENT_VS_ALLIANCE_COOLDOWN, now)
    THEN Fail(op, "BattleNotReadyToResolve", who, caller, n)
    ELSE IF ~validate_attack(agent[single_agent], now)
    THEN Fail(op, "BattleCooldown", who, caller, n)
    ELSE IF ~(alliance_balance <= U64_MAX)
    THEN Fail(op, "InsufficientFunds", who, caller, n)
    ELSE IF agent_is_winner
    THEN IF ~MulOk(alliance_balance, percent_lost) \/ partner_deduction < 0
         THEN Fail(op, "InsufficientFunds", who, caller, n)
         ELSE Settle(op, who, caller, n,
                PayIfPositive(
                    PayIfPositive(Ledger, VaultOf(alliance_leader),
                                  VaultOf(single_agent), leader_deduction),
                    VaultOf(alliance_partner), VaultOf(single_agent),
                    partner_deduction))
    ELSE IF ~MulOk(single_balance, percent_lost)
         THEN Fail(op, "InsufficientFunds", who, caller, n)
         ELSE Settle(op, who, caller, n,
                PayIfPositive(
                    PayIfPositive(Ledger, VaultOf(single_agent),
                                  VaultOf(alliance_leader), half_loss),
                    VaultOf(single_agent), VaultOf(alliance_partner), remainder))

\* The settlement of resolve_battle_alliance_vs_alliance: the losing leader
\* pays the winning leader, the losing partner pays the winning partner.
SettleAlliances(op, who, caller, n, win_leader, win_partner, lose_leader, lose_partner) ==
    LET leader_amount == token[VaultOf(lose_leader)]
        partner_amount == token[VaultOf(lose_partner)]
        alliance_balance == leader_amount + partner_amount
        total_lost == LostAmount(alliance_balance, n[1])
        leader_deduction == LeaderDeduction(total_lost, leader_amount, alliance_balance)
        partner_deduction == total_lost - leader_deduction
    IN
    IF ~MulOk(alliance_balance, n[1]) \/ partner_deduction < 0
    THEN Fail(op, "InsufficientFunds", who, caller, n)
    ELSE Settle(op, who, caller, n,
            PayIfPositive(
                PayIfPositive(Ledger, VaultOf(lose_leader), VaultOf(win_leader),
                              leader_deduction),
                VaultOf(lose_partner), VaultOf(win_partner), partner_deduction))

resolve_battle_alliance_vs_alliance(caller, leader_a, partner_a, leader_b, partner_b, percent_lost, alliance_a_wins) ==
    LET op == "resolve_battle_alliance_vs_alliance"
        who == <<leader_a, partner_a, leader_b, partner_b>>
        n == <<percent_lost, alliance_a_wins>>
        battle_start_a == agent[leader_a].battle_start_time
        battle_start_b == agent[leader_b].battle_start_time
        alliance_a_balance == token[VaultOf(leader_a)] + token[VaultOf(partner_a)]
        alliance_b_balance == token[VaultOf(leader_b)] + token[VaultOf(partner_b)]
    IN
    IF \E a \in Range(who) : ~agent[a].exists
    THEN Fail(op, "AccountNotInitialized", who, caller, n)
    ELSE IF caller # Authority THEN Fail(op, "Unauthorized", who, caller, n)
    ELSE IF battle_start_a = None \/ battle_start_b = None
    THEN Fail(op, "BattleNotStarted", who, caller, n)
    ELSE IF \/ ~BattleReady(battle_start_a, ALLIANCE_VS_ALLIANCE_COOLDOWN, now)
            \/ ~BattleReady(battle_start_b, ALLIANCE_VS_ALLIANCE_COOLDOWN, now)
    THEN Fail(op, "BattleNotReadyToResolve", who, caller, n)
    ELSE IF \E a \in Range(who) : ~validate_attack(agent[a], now)
    THEN Fail(op, "BattleCooldown", who, caller, n)
    ELSE IF ~(alliance_a_balance <= U64_MAX /\ alliance_b_balance <= U64_MAX)
    THEN Fail(op, "InsufficientFunds", who, caller, n)
    ELSE IF alliance_a_wins
    THEN SettleAlliances(op, who, caller, n, leader_a, partner_a, leader_b, partner_b)
    ELSE SettleAlliances(op, who, caller, n, leader_b, partner_b, leader_a, partner_a)

(***************************************************************************)
(* The battle engine alone: battles of funded agents under the clock.      *)
(***************************************************************************)
\* The tokens the agents' accounts hold when the battles begin.
BattleFunds == <<600, 400, 1000, 10>>

BattleToken ==
    [acc \in Accounts |->
        IF acc[1] = "agent" /\ acc[2] <= Len(BattleFunds)
        THEN BattleFunds[acc[2]] ELSE 0]

InitBattle == Registered(BattleToken)

\* The readings of the clock: the start, the first second of each resolution
\* window, and a reading inside the attack cooldown of a resolved battle.
BattleClock ==
    {StartTime + d : d \in {3500, 3600, 7200}}

PercentLost == {20, 50, 200}

\* <<winner, loser>>
SimpleLineups == {<<1, 3>>}
\* <<single_agent, alliance_leader, alliance_partner>>
AgentAllianceLineups == {<<3, 1, 2>>, <<3, 3, 4>>}
\* <<leader_a, partner_a, leader_b, partner_b>>
AllianceLineups == {<<3, 4, 1, 2>>}

StartBattleSimple ==
    \E w \in SimpleLineups : start_battle_simple(w[1], w[2])
StartBattleAgentVsAlliance ==
    \E w \in AgentAllianceLineups : start_battle_agent_vs_alliance(w[1], w[2], w[3])
StartBattleAllianceVsAlliance ==
    \E w \in AllianceLineups :
        start_battle_alliance_vs_alliance(w[1], w[2], w[3], w[4])
ResolveBattleSimple ==
    \E c \in Callers, w \in SimpleLineups, p \in PercentLost :
        resolve_battle_simple(c, w[1], w[2], p)
ResolveBattleAgentVsAlliance ==
    \E c \in Callers, w \in AgentAllianceLineups, p \in PercentLost, f \in BOOLEAN :
        resolve_battle_agent_vs_alliance(c, w[1], w[2], w[3], p, f)
ResolveBattleAllianceVsAlliance ==
    \E c \in Callers, w \in AllianceLineups, p \in PercentLost, f \in BOOLEAN :
        resolve_battle_alliance_vs_alliance(c, w[1], w[2], w[3], w[4], p, f)
TickBattle == Tick(BattleClock)

NextBattle ==
    \/ StartBattleSimple
    \/ StartBattleAgentVsAlliance
    \/ StartBattleAllianceVsAlliance
    \/ ResolveBattleSimple
    \/ ResolveBattleAgentVsAlliance
    \/ ResolveBattleAllianceVsAlliance
    \/ TickBattle

SpecBattle == InitBattle /\ [][NextBattle]_vars

(***************************************************************************)
(* Movement.                                                               *)
(***************************************************************************)
TerrainType == {"Plain", "Mountain", "River"}

\* Agent::validate_movement: the movement gate.
validate_movement(ag, t) == t >= ag.next_move_time

\* Agent::apply_terrain_move_cooldown: Plain = 1 hour, River = 2 hours,
\* Mountain = 3 hours.
apply_terrain_move_cooldown(ag, terrain, t) ==
    [ag EXCEPT !.next_move_time =
        t + (CASE terrain = "Plain" -> ONE_HOUR
               [] terrain = "River" -> 2 * ONE_HOUR
               [] terrain = "Mountain" -> 3 * ONE_HOUR)]

\* A move that does not ask the movement gate.
move_agent_ungated(caller, a, new_x, new_y, terrain) ==
    IF ~agent[a].exists \/ caller # Authority \/ ~agent[a].is_alive
    THEN Fail("move_agent", "AgentNotAlive", <<a>>, caller, <<new_x, new_y, terrain>>)
    ELSE
        /\ agent' = [agent EXCEPT ![a] =
                        apply_terrain_move_cooldown(
                            [@ EXCEPT !.x = new_x, !.y = new_y, !.last_move = now],
                            terrain, now)]
        /\ last' = Call("move_agent", "Ok", <<a>>, caller, <<new_x, new_y, terrain>>)
        /\ UNCHANGED <<game, stake, token, now>>

\* A move whose cooldown is added to the previous next_move_time.
move_agent_extending(caller, a, new_x, new_y, terrain) ==
    IF \/ ~agent[a].exists \/ caller # Authority \/ ~agent[a].is_alive
       \/ ~validate_movement(agent[a], now)
    THEN Fail("move_agent", "MovementCooldown", <<a>>, caller, <<new_x, new_y, terrain>>)
    ELSE
        /\ agent' = [agent EXCEPT ![a] =
                        apply_terrain_move_cooldown(
                            [@ EXCEPT !.x = new_x, !.y = new_y, !.last_move = now],
                            terrain, @.next_move_time)]
        /\ last' = Call("move_agent", "Ok", <<a>>, caller, <<new_x, new_y, terrain>>)
        /\ UNCHANGED <<game, stake, token, now>>

move_agent(caller, a, new_x, new_y, terrain) ==
    LET op == "move_agent"
        n == <<new_x, new_y, terrain>>
    IN
    IF ~agent[a].exists THEN Fail(op, "AccountNotInitialized", <<a>>, caller, n)
    ELSE IF caller # Authority THEN Fail(op, "ConstraintHasOne", <<a>>, caller, n)
    ELSE IF ~agent[a].is_alive THEN Fail(op, "AgentNotAlive", <<a>>, caller, n)
    ELSE IF ~validate_movement(agent[a], now)
    THEN Fail(op, "MovementCooldown", <<a>>, caller, n)
    ELSE
        /\ agent' = [agent EXCEPT ![a] =
                        apply_terrain_move_cooldown(
                            [@ EXCEPT !.x = new_x, !.y = new_y, !.last_move = now],
                            terrain, now)]
        /\ last' = Call(op, "Ok", <<a>>, caller, n)
        /\ UNCHANGED <<game, stake, token, now>>

(***************************************************************************)
(* The cooldown gates alone: one agent moves and fights simple battles     *)
(* against a second one, under a clock that reads the last second of each  *)
(* cooldown and the first second after it.                                 *)
(***************************************************************************)
CooldownClock ==
    {StartTime + d : d \in {3599, 3600, 7200,
                            3600 + BATTLE_COOLDOWN - 1, 3600 + BATTLE_COOLDOWN}}

Positions == {<<1, 0>>, <<0, 1>>}

MoveAgentCooldown ==
    \E c \in Callers, xy \in Positions, terrain \in TerrainType :
        move_agent(c, 1, xy[1], xy[2], terrain)
StartBattleCooldown == start_battle_simple(1, 3)
ResolveBattleCooldown ==
    \E c \in Callers : resolve_battle_simple(c, 1, 3, 20)
TickCooldown == Tick(CooldownClock)

NextCooldown ==
    \/ MoveAgentCooldown
    \/ StartBattleCooldown
    \/ ResolveBattleCooldown
    \/ TickCooldown

SpecCooldown == InitBattle /\ [][NextCooldown]_vars

(***************************************************************************)
(* The agent registry and the game.                                        *)
(***************************************************************************)
register_agent(caller, agent_id, x, y) ==
    LET op == "register_agent"
        n == <<x, y>>
    IN
    IF ~game.is_active THEN Fail(op, "ReentrancyGuard", <<agent_id>>, caller, n)
    ELSE IF agent[agent_id].exists
    THEN Fail(op, "AccountInUse", <<agent_id>>, caller, n)
    ELSE IF caller # Authority THEN Fail(op, "Unauthorized", <<agent_id>>, caller, n)
    ELSE IF agent_id \in game.agents
    THEN Fail(op, "AgentAlreadyExists", <<agent_id>>, caller, n)
    ELSE
        /\ agent' = [agent EXCEPT ![agent_id] = NewAgent(x, y)]
        /\ game' = [game EXCEPT !.agents = @ \cup {agent_id}]
        /\ last' = Call(op, "Ok", <<agent_id>>, caller, n)
        /\ UNCHANGED <<stake, token, now>>

\* A kill_agent that any signer may call.
kill_agent_by_anyone(caller, a, winner) ==
    LET op == "kill_agent"
        agent_balance == token[VaultOf(a)]
    IN
    IF ~agent[a].exists THEN Fail(op, "AccountNotInitialized", <<a>>, caller, winner)
    ELSE
        /\ agent' = [agent EXCEPT ![a].is_alive = FALSE]
        /\ token' = IF agent_balance > 0
                    THEN Transfer(token, VaultOf(a), VaultOf(winner), agent_balance)
                    ELSE token
        /\ last' = Call(op, "Ok", <<a>>, caller, winner)
        /\ UNCHANGED <<game, stake, now>>

\* The agent is marked dead and its whole balance goes to the winner's account.
kill_agent(caller, a, winner) ==
    LET op == "kill_agent"
        agent_balance == token[VaultOf(a)]
    IN
    IF ~agent[a].exists THEN Fail(op, "AccountNotInitialized", <<a>>, caller, winner)
    ELSE IF caller # Authority THEN Fail(op, "ConstraintHasOne", <<a>>, caller, winner)
    ELSE
        /\ agent' = [agent EXCEPT ![a].is_alive = FALSE]
        /\ token' = IF agent_balance > 0
                    THEN Transfer(token, VaultOf(a), VaultOf(winner), agent_balance)
                    ELSE token
        /\ last' = Call(op, "Ok", <<a>>, caller, winner)
        /\ UNCHANGED <<game, stake, now>>

end_game(caller) ==
    LET op == "end_game" IN
    IF caller # Authority THEN Fail(op, "ConstraintHasOne", <<>>, caller, 0)
    ELSE IF ~game.is_active THEN Fail(op, "GameNotActive", <<>>, caller, 0)
    ELSE
        /\ game' = [game EXCEPT !.is_active = FALSE]
        /\ last' = Call(op, "Ok", <<>>, caller, 0)
        /\ UNCHANGED <<agent, stake, token, now>>

(***************************************************************************)
(* The alliance registry.                                                  *)
(***************************************************************************)
\* Agent::validate_alliance: the alliance gate of the initiator, by liveness
\* and by the time elapsed since last_alliance (4 hours).
validate_alliance(ag, t) ==
    IF ~ag.is_alive THEN "AgentNotAlive"
    ELSE IF t < ag.last_alliance + 4 * ONE_HOUR THEN "AllianceCooldown"
    ELSE "Ok"

\* The alliance record of the pair, in either order: its index or 0.
FindAlliance(alliances, a, b) ==
    IF \E i \in 1 .. Len(alliances) : {alliances[i].agent1, alliances[i].agent2} = {a, b}
    THEN CHOOSE i \in 1 .. Len(alliances) :
            /\ {alliances[i].agent1, alliances[i].agent2} = {a, b}
            /\ \A j \in 1 .. (i - 1) :
                  {alliances[j].agent1, alliances[j].agent2} # {a, b}
    ELSE 0

\* The active alliance record of the pair: its index or 0.
FindActiveAlliance(alliances, a, b) ==
    IF \E i \in 1 .. Len(alliances) :
          alliances[i].is_active /\ {alliances[i].agent1, alliances[i].agent2} = {a, b}
    THEN CHOOSE i \in 1 .. Len(alliances) :
            /\ alliances[i].is_active
            /\ {alliances[i].agent1, alliances[i].agent2} = {a, b}
            /\ \A j \in 1 .. (i - 1) :
                  ~( /\ alliances[j].is_active
                     /\ {alliances[j].agent1, alliances[j].agent2} = {a, b} )
    ELSE 0

\* A form_alliance that does not look at the parties' alliance_with.
form_alliance_unguarded(caller, initiator, target) ==
    LET op == "form_alliance"
        who == <<initiator, target>>
        gate == validate_alliance(agent[initiator], now)
        i == FindAlliance(game.alliances, initiator, target)
    IN
    IF ~agent[initiator].exists \/ ~agent[target].exists
    THEN Fail(op, "AccountNotInitialized", who, caller, 0)
    ELSE IF caller # Authority THEN Fail(op, "ConstraintHasOne", who, caller, 0)
    ELSE IF gate # "Ok" THEN Fail(op, gate, who, caller, 0)
    ELSE IF initiator = target THEN Fail(op, "InvalidAlliancePartner", who, caller, 0)
    ELSE IF i > 0 /\ game.alliances[i].is_active
    THEN Fail(op, "AllianceAlreadyExists", who, caller, 0)
    ELSE
        /\ agent' = [agent EXCEPT ![initiator].alliance_with = target,
                                  ![initiator].alliance_timestamp = now,
                                  ![target].alliance_with = initiator,
                                  ![target].alliance_timestamp = now]
        /\ game' = [game EXCEPT !.alliances =
                        IF i > 0
                        THEN [@ EXCEPT ![i].is_active = TRUE, ![i].formed_at = now]
                        ELSE Append(@, [agent1 |-> initiator, agent2 |-> target,
                                        formed_at |-> now, is_active |-> TRUE])]
        /\ last' = Call(op, "Ok", who, caller, 0)
        /\ UNCHANGED <<stake, token, now>>

\* The Game account is created with room for MAX_ALLIANCES records: a push
\* beyond them is written back only if the rest of the account leaves the
\* room, and the instruction fails otherwise.
form_alliance(caller, initiator, target) ==
    LET op == "form_alliance"
        who == <<initiator, target>>
        gate == validate_alliance(agent[initiator], now)
        i == FindAlliance(game.alliances, initiator, target)
    IN
    IF ~agent[initiator].exists \/ ~agent[target].exists
    THEN Fail(op, "AccountNotInitialized", who, caller, 0)
    ELSE IF caller # Authority THEN Fail(op, "ConstraintHasOne", who, caller, 0)
    ELSE IF gate # "Ok" THEN Fail(op, gate, who, caller, 0)
    ELSE IF initiator = target THEN Fail(op, "InvalidAlliancePartner", who, caller, 0)
    ELSE IF agent[initiator].alliance_with # None \/ agent[target].alliance_with # None
    THEN Fail(op, "AllianceAlreadyExists", who, caller, 0)
    ELSE IF i > 0 /\ game.alliances[i].is_active
    THEN Fail(op, "AllianceAlreadyExists", who, caller, 0)
    ELSE
      \/ /\ i = 0 /\ Len(game.alliances) >= MAX_ALLIANCES
         /\ Fail(op, "AccountDidNotSerialize", who, caller, 0)
      \/
        /\ agent' = [agent EXCEPT ![initiator].alliance_with = target,
                                  ![initiator].alliance_timestamp = now,
                                  ![target].alliance_with = initiator,
                                  ![target].alliance_timestamp = now]
        /\ game' = [game EXCEPT !.alliances =
                        IF i > 0
                        THEN [@ EXCEPT ![i].is_active = TRUE, ![i].formed_at = now]
                        ELSE Append(@, [agent1 |-> initiator, agent2 |-> target,
                                        formed_at |-> now, is_active |-> TRUE])]
        /\ last' = Call(op, "Ok", who, caller, 0)
        /\ UNCHANGED <<stake, token, now>>

\* A parting that clears the initiator's fields only.
break_alliance_one_sided(caller, initiator, target) ==
    LET i == FindActiveAlliance(game.alliances, initiator, target) IN
    IF \/ ~agent[initiator].exists \/ ~agent[target].exists \/ caller # Authority
       \/ agent[initiator].alliance_with # target \/ i = 0
    THEN Fail("break_alliance", "NoAllianceToBreak", <<initiator, target>>, caller, 0)
    ELSE
        /\ agent' = [agent EXCEPT ![initiator].alliance_with = None,
                                  ![initiator].alliance_timestamp = 0]
        /\ game' = [game EXCEPT !.alliances[i].is_active = FALSE]
        /\ last' = Call("break_alliance", "Ok", <<initiator, target>>, caller, 0)
        /\ UNCHANGED <<stake, token, now>>

\* A parting that deletes the pair's record from the list.
break_alliance_removing(caller, initiator, target) ==
    LET i == FindActiveAlliance(game.alliances, initiator, target) IN
    IF \/ ~agent[initiator].exists \/ ~agent[target].exists \/ caller # Authority
       \/ agent[initiator].alliance_with # target \/ i = 0
    THEN Fail("break_alliance", "NoAllianceToBreak", <<initiator, target>>, caller, 0)
    ELSE
        /\ agent' = [a \in Agents |->
                        IF a \in {initiator, target}
                        THEN [agent[a] EXCEPT !.alliance_with = None,
                                              !.alliance_timestamp = 0]
                        ELSE agent[a]]
        /\ game' = [game EXCEPT !.alliances =
                        SubSeq(@, 1, i - 1) \o SubSeq(@, i + 1, Len(@))]
        /\ last' = Call("break_alliance", "Ok", <<initiator, target>>, caller, 0)
        /\ UNCHANGED <<stake, token, now>>

break_alliance(caller, initiator, target) ==
    LET op == "break_alliance"
        who == <<initiator, target>>
        i == FindActiveAlliance(game.alliances, initiator, target)
    IN
    IF ~agent[initiator].exists \/ ~agent[target].exists
    THEN Fail(op, "AccountNotInitialized", who, caller, 0)
    ELSE IF caller # Authority THEN Fail(op, "ConstraintHasOne", who, caller, 0)
    ELSE IF agent[initiator].alliance_with # target
    THEN Fail(op, "NoAllianceToBreak", who, caller, 0)
    ELSE IF i = 0 THEN Fail(op, "AllianceNotFound", who, caller, 0)
    ELSE
        /\ agent' = [a \in Agents |->
                        IF a \in {initiator, target}
                        THEN [agent[a] EXCEPT !.alliance_with = None,
                                              !.alliance_timestamp = 0]
                        ELSE agent[a]]
        /\ game' = [game EXCEPT !.alliances[i].is_active = FALSE]
        /\ last' = Call(op, "Ok", who, caller, 0)
        /\ UNCHANGED <<stake, token, now>>

(***************************************************************************)
(* The life of the game: agents are registered, move, ally, start battles  *)
(* and are killed, and the game is ended.                                  *)
(***************************************************************************)
\* Every agent but the last one is registered when the game begins.
InitLife == RegisteredUpTo(MAX_AGENTS - 1, BattleToken)

LifeClock == {StartTime + ONE_HOUR}

\* <<initiator, target>>
AlliancePairs == {<<1, 2>>, <<2, 1>>, <<1, 1>>}

RegisterAgentLife ==
    \E c \in Callers : register_agent(c, MAX_AGENTS, 0, 0)
KillAgentLife ==
    \E c \in Callers : kill_agent(c, 2, 1)
EndGameLife ==
    \E c \in Callers : end_game(c)
MoveAgentLife ==
    \E c \in Callers, a \in {1, 2} : move_agent(c, a, 1, 0, "Plain")
StartBattleLife ==
    \E w \in {<<1, 2>>, <<1, 3>>} : start_battle_simple(w[1], w[2])
FormAllianceLife ==
    \E c \in Callers, w \in AlliancePairs : form_alliance(c, w[1], w[2])
BreakAllianceLife ==
    \E c \in Callers, w \in AlliancePairs : break_alliance(c, w[1], w[2])
TickLife == Tick(LifeClock)

NextLife ==
    \/ RegisterAgentLife
    \/ KillAgentLife
    \/ EndGameLife
    \/ MoveAgentLife
    \/ StartBattleLife
    \/ FormAllianceLife
    \/ BreakAllianceLife
    \/ TickLife

SpecLife == InitLife /\ [][NextLife]_vars

(***************************************************************************)
(* The alliance registry alone: three agents ally and part, a battle of    *)
(* theirs is started and one of them is killed.                            *)
(***************************************************************************)
Allies == {1, 2, 3}

FormAllianceAny ==
    \E c \in Callers, i \in Allies, j \in Allies : form_alliance(c, i, j)
BreakAllianceAny ==
    \E i \in Allies, j \in Allies : break_alliance(Authority, i, j)
KillAgentAlliance == kill_agent(Authority, 2, 1)
StartBattleAlliance == start_battle_agent_vs_alliance(3, 1, 2)

NextAlliance ==
    \/ FormAllianceAny
    \/ BreakAllianceAny
    \/ KillAgentAlliance
    \/ StartBattleAlliance

SpecAlliance == InitBattle /\ [][NextAlliance]_vars

(***************************************************************************)
(* The registry from an empty game: the authority and another signer       *)
(* register agents, and the authority kills one and ends the game.         *)
(***************************************************************************)
InitRegistry ==
    /\ game = InitGame
    /\ agent = [a \in Agents |-> NoAgent]
    /\ stake = [s \in Agents \X Stakers |-> NoStake]
    /\ token = StakeToken
    /\ now = StartTime
    /\ last = Call("initialize_game", "Ok", <<>>, Authority, 0)

RegisterAgentAny ==
    \E c \in Callers, id \in Agents, x \in {0, 1} : register_agent(c, id, x, 0)
KillAgentRegistry == kill_agent(Authority, 1, 2)
EndGameRegistry == end_game(Authority)

NextRegistry == RegisterAgentAny \/ KillAgentRegistry \/ EndGameRegistry

SpecRegistry == InitRegistry /\ [][NextRegistry]_vars

(***************************************************************************)
(* The arena: battles whose lineups overlap, started at different times,   *)
(* with an agent that is killed.                                           *)
(***************************************************************************)
ArenaClock == {StartTime + d : d \in {3500, 3600, 7100}}
ArenaPercent == 20

\* <<winner, loser>>
ArenaStartPairs == {<<1, 2>>, <<3, 4>>}
ArenaResolvePairs == {<<1, 2>>, <<3, 2>>}
\* <<single_agent, alliance_leader, alliance_partner>>
ArenaTrios == {<<4, 1, 2>>}
\* <<leader_a, partner_a, leader_b, partner_b>>
ArenaQuartets == {<<1, 2, 3, 4>>}

KillAgentArena == kill_agent(Authority, 4, 3)
StartBattleSimpleArena ==
    \E w \in ArenaStartPairs : start_battle_simple(w[1], w[2])
StartBattleAgentVsAllianceArena ==
    \E w \in ArenaTrios : start_battle_agent_vs_alliance(w[1], w[2], w[3])
StartBattleAllianceVsAllianceArena ==
    \E w \in ArenaQuartets : start_battle_alliance_vs_alliance(w[1], w[2], w[3], w[4])
ResolveBattleSimpleArena ==
    \E w \in ArenaResolvePairs : resolve_battle_simple(Authority, w[1], w[2], ArenaPercent)
ResolveBattleAgentVsAllianceArena ==
    \E w \in ArenaTrios :
        resolve_battle_agent_vs_alliance(Authority, w[1], w[2], w[3], ArenaPercent, TRUE)
ResolveBattleAllianceVsAllianceArena ==
    \E w \in ArenaQuartets :
        resolve_battle_alliance_vs_alliance(Authority, w[1], w[2], w[3], w[4], ArenaPercent, TRUE)
TickArena == Tick(ArenaClock)

NextArena ==
    \/ KillAgentArena
    \/ StartBattleSimpleArena
    \/ StartBattleAgentVsAllianceArena
    \/ StartBattleAllianceVsAllianceArena
    \/ ResolveBattleSimpleArena
    \/ ResolveBattleAgentVsAllianceArena
    \/ ResolveBattleAllianceVsAllianceArena
    \/ TickArena

SpecArena == InitBattle /\ [][NextArena]_vars

(***************************************************************************)
(* The same arena with battles of the two 3600-second shapes only: simple  *)
(* battles and battles of two alliances are started, every resolve may be  *)
(* called.                                                                 *)
(***************************************************************************)
NextShape ==
    \/ StartBattleSimpleArena
    \/ StartBattleAllianceVsAllianceArena
    \/ ResolveBattleSimpleArena
    \/ ResolveBattleAgentVsAllianceArena
    \/ ResolveBattleAllianceVsAllianceArena
    \/ TickArena

SpecShape == InitBattle /\ [][NextShape]_vars

(***************************************************************************)
(* The alliances of four agents: every pair is formed and broken.          *)
(***************************************************************************)
\* <<initiator, target>>
AgentPairs == {<<1, 2>>, <<1, 3>>, <<1, 4>>, <<2, 3>>, <<2, 4>>, <<3, 4>>}

FormAlliancePairs == \E w \in AgentPairs : form_alliance(Authority, w[1], w[2])
BreakAlliancePairs == \E w \in AgentPairs : break_alliance(Authority, w[2], w[1])

NextPairs == FormAlliancePairs \/ BreakAlliancePairs

SpecPairs == InitBattle /\ [][NextPairs]_vars

(***************************************************************************)
(* The map: two agents move to positions inside the circle of the map, on  *)
(* its boundary and outside it.                                            *)
(***************************************************************************)
MapClock == {StartTime + ONE_HOUR, StartTime + 3 * ONE_HOUR}
MapPositions == {<<0, 0>>, <<300, 400>>, <<500, 0>>, <<501, 0>>, <<400, 400>>}

MoveAgentMap ==
    \E a \in {1, 2}, xy \in MapPositions, terrain \in {"Plain", "River"} :
        move_agent(Authority, a, xy[1], xy[2], terrain)
TickMap == Tick(MapClock)

NextMap == MoveAgentMap \/ TickMap

SpecMap == InitBattle /\ [][NextMap]_vars

(***************************************************************************)
(* Battles over balances near the top of the balance domain.               *)
(***************************************************************************)
LargeFunds == <<600000, 500000, 40000, 10>>
LargeToken ==
    [acc \in Accounts |->
        IF acc[1] = "agent" /\ acc[2] <= Len(LargeFunds)
        THEN LargeFunds[acc[2]] ELSE 0]

InitLarge == Registered(LargeToken)

LargeClock == {StartTime + ONE_HOUR, StartTime + ONE_HOUR + BATTLE_COOLDOWN}
LargePercent == {1, 20, 50}
\* <<winner, loser>>
LargePairs == {<<4, 3>>}
\* <<single_agent, alliance_leader, alliance_partner>>
LargeTrios == {<<1, 3, 4>>, <<4, 1, 2>>}
\* <<leader_a, partner_a, leader_b, partner_b>>
LargeQuartets == {<<3, 4, 1, 2>>}

StartBattleSimpleLarge == \E w \in LargePairs : start_battle_simple(w[1], w[2])
StartBattleAgentVsAllianceLarge ==
    \E w \in LargeTrios : start_battle_agent_vs_alliance(w[1], w[2], w[3])
StartBattleAllianceVsAllianceLarge ==
    \E w \in LargeQuartets : start_battle_alliance_vs_alliance(w[1], w[2], w[3], w[4])
ResolveBattleSimpleLarge ==
    \E w \in LargePairs, p \in LargePercent :
        resolve_battle_simple(Authority, w[1], w[2], p)
ResolveBattleAgentVsAllianceLarge ==
    \E w \in LargeTrios, p \in LargePercent, f \in BOOLEAN :
        resolve_battle_agent_vs_alliance(Authority, w[1], w[2], w[3], p, f)
ResolveBattleAllianceVsAllianceLarge ==
    \E w \in LargeQuartets, p \in LargePercent, f \in BOOLEAN :
        resolve_battle_alliance_vs_alliance(Authority, w[1], w[2], w[3], w[4], p, f)
TickLarge == Tick(LargeClock)

NextLarge ==
    \/ StartBattleSimpleLarge
    \/ StartBattleAgentVsAllianceLarge
    \/ StartBattleAllianceVsAllianceLarge
    \/ ResolveBattleSimpleLarge
    \/ ResolveBattleAgentVsAllianceLarge
    \/ ResolveBattleAllianceVsAllianceLarge
    \/ TickLarge

SpecLarge == InitLarge /\ [][NextLarge]_vars

(***************************************************************************)
(* Battles of alliances over every pair of small balances of agents 1 and  *)
(* 2, with percentages up to 100.                                          *)
(***************************************************************************)
SplitMax == 3
SplitPercent == {0, 1, 34, 50, 99, 100}

\* Agents 1 and 2 hold l and p, agents 3 and 4 hold 5 and 0.
SplitToken(l, p) ==
    [acc \in Accounts |->
        IF acc = VaultOf(1) THEN l
        ELSE IF acc = VaultOf(2) THEN p
        ELSE IF acc = VaultOf(3) THEN 5
        ELSE 0]

InitSplit == \E l, p \in 0 .. SplitMax : Registered(SplitToken(l, p))

NextSplit ==
    \/ start_battle_agent_vs_alliance(3, 1, 2)
    \/ start_battle_alliance_vs_alliance(3, 4, 1, 2)
    \/ \E p \in SplitPercent, f \in BOOLEAN :
          resolve_battle_agent_vs_alliance(Authority, 3, 1, 2, p, f)
    \/ \E p \in SplitPercent, f \in BOOLEAN :
          resolve_battle_alliance_vs_alliance(Authority, 3, 4, 1, 2, p, f)
    \/ Tick(LifeClock)

SpecSplit == InitSplit /\ [][NextSplit]_vars

(***************************************************************************)
(* Staking rewards.                                                        *)
(***************************************************************************)
DAILY_REWARD_TOKENS == 500000
REWARD_CLAIM_COOLDOWN == 86400
SECONDS_PER_DAY == 86400

REWARD_RATE_PER_SECOND == DAILY_REWARD_TOKENS \div SECONDS_PER_DAY

\* The reward of one claim: floor(time_elapsed * rate * (shares / total)),
\* computed in f64 and cast to u64 (a NaN casts to 0, an infinity to the
\* largest u64).  The quotient below is the float result whenever the
\* proportion is exact in binary, which it is for the shares of RewardDeposits.
UserReward(time_elapsed, stake_shares, total_shares) ==
    IF total_shares = 0
    THEN IF stake_shares = 0 THEN 0 ELSE U64_MAX
    ELSE (time_elapsed * REWARD_RATE_PER_SECOND * stake_shares) \div total_shares

claim_staking_rewards(a, s) ==
    LET op == "claim_staking_rewards"
        time_elapsed == now - stake[a, s].last_reward_timestamp + 1
        user_reward == UserReward(time_elapsed, stake[a, s].shares, agent[a].total_shares)
    IN
    IF ~agent[a].exists \/ ~stake[a, s].is_initialized
    THEN Fail(op, "AccountNotInitialized", <<a>>, s, 0)
    ELSE IF ~(token[RewardsVault] >= user_reward) THEN Fail(op, "NotEnoughTokens", <<a>>, s, 0)
    ELSE
        /\ token' = Transfer(token, RewardsVault, WalletOf(s), user_reward)
        /\ stake' = [stake EXCEPT ![a, s].last_reward_timestamp = now]
        /\ last' = Call(op, "Ok", <<a>>, s, user_reward)
        /\ UNCHANGED <<game, agent, now>>

update_daily_rewards(caller, new_daily_reward) ==
    LET op == "update_daily_rewards" IN
    IF caller # Authority THEN Fail(op, "Unauthorized", <<>>, caller, new_daily_reward)
    ELSE
        /\ game' = [game EXCEPT !.daily_reward_tokens = new_daily_reward]
        /\ last' = Call(op, "Ok", <<>>, caller, new_daily_reward)
        /\ UNCHANGED <<agent, stake, token, now>>

(***************************************************************************)
(* Stakers of one agent who deposit and claim, with the rewards vault      *)
(* funded for the first claims.                                            *)
(***************************************************************************)
RewardFund == 500020
RewardDeposits == {1}
RewardClock == {StartTime + 1, StartTime + ONE_HOUR, StartTime + REWARD_CLAIM_COOLDOWN}

RewardToken == [StakeToken EXCEPT ![RewardsVault] = RewardFund]

InitRewards == Registered(RewardToken)

InitializeStakeRewards ==
    \E a \in VaultAgents, s \in Stakers, d \in RewardDeposits : initialize_stake(a, s, d)
ClaimStakingRewards == \E a \in VaultAgents, s \in Stakers : claim_staking_rewards(a, s)
TickRewards == Tick(RewardClock)

NextRewards == InitializeStakeRewards \/ ClaimStakingRewards \/ TickRewards

SpecRewards == InitRewards /\ [][NextRewards]_vars

(***************************************************************************)
(* The same stakers while the authority changes the daily reward rate.     *)
(***************************************************************************)
DailyRates == {0, 10 * SECONDS_PER_DAY}

UpdateDailyRewardsRate == \E r \in DailyRates : update_daily_rewards(Authority, r)

NextRate ==
    \/ InitializeStakeRewards
    \/ ClaimStakingRewards
    \/ UpdateDailyRewardsRate
    \/ TickRewards

SpecRate == InitRewards /\ [][NextRate]_vars

(***************************************************************************)
(* The operations of the game authority, called by the authority and by    *)
(* another signer.                                                         *)
(***************************************************************************)
AuthorityClock == {StartTime + ONE_HOUR}
AuthorityPercent == 20
DailyRewards == {0, 500}

RegisterAgentBy == \E c \in Callers : register_agent(c, MAX_AGENTS, 0, 0)
KillAgentBy == \E c \in Callers : kill_agent(c, 2, 1)
EndGameBy == end_game(Authority)
UpdateDailyRewardsBy ==
    \E c \in Callers, d \in DailyRewards : update_daily_rewards(c, d)
StartBattleSimpleBy == start_battle_simple(1, 3)
StartBattleAgentVsAllianceBy == start_battle_agent_vs_alliance(3, 1, 2)
StartBattleAllianceVsAllianceBy == start_battle_alliance_vs_alliance(3, 4, 1, 2)
ResolveBattleSimpleBy ==
    \E c \in Callers : resolve_battle_simple(c, 1, 3, AuthorityPercent)
ResolveBattleAgentVsAllianceBy ==
    \E c \in Callers : resolve_battle_agent_vs_alliance(c, 3, 1, 2, AuthorityPercent, TRUE)
ResolveBattleAllianceVsAllianceBy ==
    \E c \in Callers :
        resolve_battle_alliance_vs_alliance(c, 3, 4, 1, 2, AuthorityPercent, TRUE)
TickAuthority == Tick(AuthorityClock)

NextAuthority ==
    \/ RegisterAgentBy
    \/ KillAgentBy
    \/ EndGameBy
    \/ UpdateDailyRewardsBy
    \/ StartBattleSimpleBy
    \/ StartBattleAgentVsAllianceBy
    \/ StartBattleAllianceVsAllianceBy
    \/ ResolveBattleSimpleBy
    \/ ResolveBattleAgentVsAllianceBy
    \/ ResolveBattleAllianceVsAllianceBy
    \/ TickAuthority

SpecAuthority == InitLife /\ [][NextAuthority]_vars


(***************************************************************************)
(* Properties of the stake vault.                                          *)
(***************************************************************************)
RECURSIVE SumOver(_, _)
SumOver(f, S) ==
    IF S = {} THEN 0
    ELSE LET x == CHOOSE y \in S : TRUE IN f[x] + SumOver(f, S \ {x})

SharesOf(a) == [s \in Stakers |-> stake[a, s].shares]

DepositOps == {"initialize_stake", "stake_tokens"}
VaultOps == DepositOps \cup {"unstake_tokens"}

\* C1: share conservation.  In every state reached by initialize_stake,
\* stake_tokens and unstake_tokens calls, successful or failed, the shares of
\* the stakers of an agent add up to the agent's total_shares.
ShareConservation ==
    \A a \in Agents : SumOver(SharesOf(a), Stakers) = agent[a].total_shares

\* A withdrawal has succeeded while two stakers hold shares of the vault.
ShareConservationWitness ==
    /\ last.op = "unstake_tokens" /\ last.res = "Ok"
    /\ \A s \in {1, 2} : stake[1, s].shares > 0

\* C2: mint proportionality.  A successful deposit of A into a vault that held
\* B tokens and S shares before the deposit mints floor(A*S/B) shares when
\* B > 0 and S > 0, and A shares when B = 0 or S = 0.
MintProportionality ==
    [][ \A a \in Agents, s \in Stakers :
            ( /\ last'.op \in DepositOps /\ last'.res = "Ok"
              /\ last'.who = <<a>> /\ last'.by = s )
            => LET A == last'.n
                   B == token[VaultOf(a)]
                   S == agent[a].total_shares
                   minted == stake'[a, s].shares - stake[a, s].shares
               IN  minted = IF B > 0 /\ S > 0 THEN (A * S) \div B ELSE A ]_vars

\* C3: deposit/withdraw round trip.  After a deposit of X into an empty vault
\* (the vault then holds exactly X and the depositor holds every share), an
\* unstake_tokens of all of the depositor's shares as the very next call
\* succeeds, pays X to the staker and leaves the vault balance, total_shares
\* and the staker's shares at 0.
RoundTrip ==
    [][ \A a \in Agents, s \in Stakers :
            ( /\ last.op \in DepositOps /\ last.res = "Ok"
              /\ last.who = <<a>> /\ last.by = s
              /\ token[VaultOf(a)] = last.n
              /\ agent[a].total_shares = stake[a, s].shares
              /\ last'.op = "unstake_tokens"
              /\ last'.who = <<a>> /\ last'.by = s
              /\ last'.n = stake[a, s].shares )
            => /\ last'.res = "Ok"
               /\ token'[WalletOf(s)] = token[WalletOf(s)] + last.n
               /\ token'[VaultOf(a)] = 0
               /\ agent'[a].total_shares = 0
               /\ stake'[a, s].shares = 0 ]_vars

\* A staker has redeemed the whole vault: every wallet is back at its funding
\* and the vault and its shares are at 0.
RoundTripWitness ==
    /\ last.op = "unstake_tokens" /\ last.res = "Ok" /\ last.who = <<1>>
    /\ last.n = MaxDeposit
    /\ token[VaultOf(1)] = 0 /\ agent[1].total_shares = 0
    /\ \A s \in Stakers : token[WalletOf(s)] = WalletInit /\ stake[1, s].shares = 0

\* C4: deposits and withdrawals never lower the value of a share.  For every
\* successful deposit or withdrawal between states with total_shares > 0,
\* balance_after * shares_before >= balance_before * shares_after.
ValuePerShareMonotone ==
    [][ \A a \in Agents :
            ( /\ last'.op \in VaultOps /\ last'.res = "Ok" /\ last'.who = <<a>>
              /\ agent[a].total_shares > 0 /\ agent'[a].total_shares > 0 )
            => token'[VaultOf(a)] * agent[a].total_shares
                  >= token[VaultOf(a)] * agent'[a].total_shares ]_vars

\* A withdrawal has left a vault whose shares are worth more than one token.
ValuePerShareWitness ==
    /\ last.op = "unstake_tokens" /\ last.res = "Ok"
    /\ agent[1].total_shares > 0
    /\ token[VaultOf(1)] > agent[1].total_shares

(***************************************************************************)
(* Properties of the battle engine.                                        *)
(***************************************************************************)
AllianceResolveOps ==
    {"resolve_battle_agent_vs_alliance", "resolve_battle_alliance_vs_alliance"}
ResolveOps == AllianceResolveOps \cup {"resolve_battle_simple"}

\* The participants of a resolve_battle_* call c that pay: <<leader, partner>>
\* of the losing alliance, or <<loser>>.
Losers(c) ==
    IF c.op = "resolve_battle_simple" THEN <<c.who[2]>>
    ELSE IF c.op = "resolve_battle_agent_vs_alliance"
    THEN (IF c.n[2] THEN <<c.who[2], c.who[3]>> ELSE <<c.who[1]>>)
    ELSE (IF c.n[2] THEN <<c.who[3], c.who[4]>> ELSE <<c.who[1], c.who[2]>>)

\* The participants that receive what Losers(c) pay, in the same order when
\* both sides are alliances.
Winners(c) ==
    IF c.op = "resolve_battle_simple" THEN <<c.who[1]>>
    ELSE IF c.op = "resolve_battle_agent_vs_alliance"
    THEN (IF c.n[2] THEN <<c.who[1]>> ELSE <<c.who[2], c.who[3]>>)
    ELSE (IF c.n[2] THEN <<c.who[1], c.who[2]>> ELSE <<c.who[3], c.who[4]>>)

\* percent_lost of a resolve_battle_* call.
PercentOf(c) == IF c.op = "resolve_battle_simple" THEN c.n ELSE c.n[1]

Distinct(who) == Cardinality(Range(who)) = Len(who)

\* C5: the split of a two-loser settlement.  In every successful settlement
\* whose losing side is an alliance (of distinct participants, with balances
\* leader_balance and partner_balance before the call), the leader pays
\* leader_deduction = floor(total_lost * leader_balance / loser_total) and the
\* partner pays total_lost - leader_deduction, where total_lost =
\* floor(loser_total * percent_lost / 100); the winning side receives exactly
\* total_lost.
TwoLoserSplit ==
    [][ ( /\ last'.op \in AllianceResolveOps /\ last'.res = "Ok"
          /\ Len(Losers(last')) = 2 /\ Distinct(last'.who) )
        => LET lose == Losers(last')
               win == Winners(last')
               leader_balance == token[VaultOf(lose[1])]
               partner_balance == token[VaultOf(lose[2])]
               loser_total == leader_balance + partner_balance
               total_lost == (loser_total * PercentOf(last')) \div 100
               leader_deduction ==
                   IF loser_total > 0
                   THEN (total_lost * leader_balance) \div loser_total ELSE 0
               partner_deduction == total_lost - leader_deduction
           IN  /\ token'[VaultOf(lose[1])] = leader_balance - leader_deduction
               /\ token'[VaultOf(lose[2])] = partner_balance - partner_deduction
               /\ IF Len(win) = 1
                  THEN token'[VaultOf(win[1])] = token[VaultOf(win[1])] + total_lost
                  ELSE /\ token'[VaultOf(win[1])] =
                              token[VaultOf(win[1])] + leader_deduction
                       /\ token'[VaultOf(win[2])] =
                              token[VaultOf(win[2])] + partner_deduction ]_vars

\* The alliance of agents 1 and 2, holding 600 and 400, has lost 50 percent:
\* 300 and 200 have gone to the leader and the partner of the winners.
TwoLoserSplitWitness ==
    /\ last.op = "resolve_battle_alliance_vs_alliance" /\ last.res = "Ok"
    /\ last.who = <<3, 4, 1, 2>> /\ last.n = <<50, TRUE>>
    /\ token[VaultOf(1)] = 300 /\ token[VaultOf(2)] = 200
    /\ token[VaultOf(3)] = 1300 /\ token[VaultOf(4)] = 210

\* C6: the loss is bounded by the losers' balance.  In every successful
\* resolve_battle_* call, whatever percent_lost it was given, total_lost =
\* floor(loser_total * percent_lost / 100) is at most loser_total, the sum of
\* the balances of the losing side before the call.
LossWithinLoserTotal ==
    [][ (last'.op \in ResolveOps /\ last'.res = "Ok")
        => LET lose == Losers(last')
               loser_total ==
                   IF Len(lose) = 1 THEN token[VaultOf(lose[1])]
                   ELSE token[VaultOf(lose[1])] + token[VaultOf(lose[2])]
               total_lost == (loser_total * PercentOf(last')) \div 100
           IN  total_lost <= loser_total ]_vars

StartBattleOps ==
    {"start_battle_simple", "start_battle_agent_vs_alliance",
     "start_battle_alliance_vs_alliance"}

\* C9: a dead agent takes part in nothing new.  Every successful move_agent,
\* start_battle_* and form_alliance names only agents whose is_alive is TRUE
\* when the call is made: the moved agent, every participant of the battle,
\* the initiator and the target of the alliance.
DeadAgentsExcluded ==
    [][ ( /\ last'.op \in {"move_agent", "form_alliance"} \cup StartBattleOps
          /\ last'.res = "Ok" )
        => \A a \in Range(last'.who) : agent[a].is_alive ]_vars

\* The operations of the agents, the stakes, the alliances and the battles.
GatedOps ==
    {"register_agent", "kill_agent", "move_agent", "ignore_agent",
     "form_alliance", "break_alliance", "initialize_stake", "stake_tokens",
     "unstake_tokens", "claim_staking_rewards"}
        \cup StartBattleOps \cup ResolveOps

\* C10: an ended game admits no operation.  While game.is_active is FALSE no
\* call of an agent, stake, alliance or battle operation succeeds, and none
\* changes the game, an agent, a stake or a token balance.
EndedGameAdmitsNothing ==
    [][ (~game.is_active /\ last'.op \in GatedOps)
        => /\ last'.res # "Ok"
           /\ UNCHANGED <<game, agent, stake, token>> ]_vars

(***************************************************************************)
(* Properties of the alliance registry.                                    *)
(***************************************************************************)
\* The indices of the active Alliance records of the pair {a, b}.
ActiveRecords(a, b) ==
    {i \in 1 .. Len(game.alliances) :
        /\ game.alliances[i].is_active
        /\ {game.alliances[i].agent1, game.alliances[i].agent2} = {a, b}}

\* C11: the alliance records and the agents' alliance_with fields agree.  In
\* every state reached by form_alliance, break_alliance, kill_agent and battle
\* calls, a pair of agents has at most one active Alliance record, an agent
\* is a party of at most one active record, and a.alliance_with = b exactly
\* when an active record of the pair {a, b} exists.
AllianceConsistency ==
    /\ \A a, b \in Agents : Cardinality(ActiveRecords(a, b)) <= 1
    /\ \A a \in Agents :
          Cardinality({i \in 1 .. Len(game.alliances) :
                          /\ game.alliances[i].is_active
                          /\ a \in {game.alliances[i].agent1,
                                    game.alliances[i].agent2}}) <= 1
    /\ \A a, b \in Agents :
          (agent[a].alliance_with = b) <=> (ActiveRecords(a, b) # {})

\* Agents 1 and 2 have parted, their record is kept inactive, and agent 3 is
\* now allied with agent 1.
AllianceConsistencyWitness ==
    /\ last.op = "form_alliance" /\ last.res = "Ok"
    /\ Len(game.alliances) = 2
    /\ ~game.alliances[1].is_active /\ game.alliances[2].is_active
    /\ agent[1].alliance_with = 3 /\ agent[3].alliance_with = 1
    /\ agent[2].alliance_with = None

WithdrawalCooldown ==
    [][ \A a \in Agents, s \in Stakers :
          /\ ( /\ last'.op \in DepositOps /\ last'.res = "Ok"
               /\ last'.who = <<a>> /\ last'.by = s )
             => stake'[a, s].cooldown_ends_at = now + 3600
          /\ ( /\ last'.op = "unstake_tokens"
               /\ last'.who = <<a>> /\ last'.by = s
               /\ stake[a, s].is_initialized
               /\ last'.n > 0 /\ stake[a, s].shares >= last'.n
               /\ now < stake[a, s].cooldown_ends_at )
             => /\ last'.res = "CooldownNotOver"
                /\ UNCHANGED <<game, agent, stake, token>> ]_vars

(***************************************************************************)
(* Properties of the battle states.                                        *)
(***************************************************************************)
\* C18: a resolve needs every participant in a started battle.  A
\* resolve_battle_* call by the game authority that names a participant whose
\* battle_start_time is none fails with BattleNotStarted and changes nothing
\* (stated for calls made when the battles of the other participants are an
\* hour old, so that no other check of the handler can answer first).
ResolveNeedsStartedBattle ==
    [][ ( /\ last'.op \in ResolveOps /\ last'.by = Authority
          /\ \E a \in Range(last'.who) : agent[a].battle_start_time = None
          /\ \A a \in Range(last'.who) :
                agent[a].battle_start_time # None
                   => now >= agent[a].battle_start_time + ONE_HOUR )
        => /\ last'.res = "BattleNotStarted"
           /\ UNCHANGED <<game, agent, stake, token>> ]_vars

\* C20: the frame of a resolve.  A successful resolve_battle_* leaves every
\* participant of the call with battle_start_time = none and last_attack =
\* now, and every other agent with the battle_start_time and the last_attack
\* it had.
ResolveFrame ==
    [][ (last'.op \in ResolveOps /\ last'.res = "Ok")
        => \A a \in Agents :
              IF a \in Range(last'.who)
              THEN /\ agent'[a].battle_start_time = None
                   /\ agent'[a].last_attack = now
              ELSE /\ agent'[a].battle_start_time = agent[a].battle_start_time
                   /\ agent'[a].last_attack = agent[a].last_attack ]_vars

\* The battle of the four agents has been resolved while no other battle was
\* started: all four are stamped and out of battle.
ResolveFrameWitness ==
    /\ last.op = "resolve_battle_alliance_vs_alliance" /\ last.res = "Ok"
    /\ \A a \in 1 .. 4 :
          agent[a].battle_start_time = None /\ agent[a].last_attack = now


(***************************************************************************)
(* Properties of the staking rewards.                                      *)
(***************************************************************************)
\* C14: the reward claim cooldown.  claim_staking_rewards succeeds only when
\* the stake's cooldown has ended and 86400 seconds have passed since the
\* stake's last successful claim, so that two successful claims of one staker
\* on one agent are at least 86400 seconds apart.
RewardClaimCooldown ==
    [][ (last'.op = "claim_staking_rewards" /\ last'.res = "Ok")
          => LET info == stake[last'.who[1], last'.by] IN
             /\ now >= info.cooldown_ends_at
             /\ now >= info.last_reward_timestamp + REWARD_CLAIM_COOLDOWN ]_vars


(***************************************************************************)
(* Properties of the agent registry.                                       *)
(***************************************************************************)
\* C16: the registry is capped at MAX_AGENTS.  The number of registered
\* agents never exceeds MAX_AGENTS; a register_agent call made when
\* MAX_AGENTS agents are registered fails with MaxAgentLimitReached, a
\* register_agent call for an identity already registered fails, and both
\* leave the registry unchanged.
RegistryCap ==
    [][ /\ Cardinality(game'.agents) <= MAX_AGENTS
        /\ (last'.op = "register_agent" /\ last'.by = Authority /\ game.is_active)
              => LET id == last'.who[1] IN
                 /\ id \in game.agents
                       => last'.res # "Ok" /\ UNCHANGED <<game, agent>>
                 /\ (id \notin game.agents /\ Cardinality(game.agents) >= MAX_AGENTS)
                       => last'.res = "MaxAgentLimitReached" /\ UNCHANGED <<game, agent>>
      ]_vars


(***************************************************************************)
(* Properties of the arena.                                                *)
(***************************************************************************)
\* C17: the start gate.  A start_battle_* call succeeds only if every
\* participant is alive and in no battle, and then sets battle_start_time to
\* now for every participant; with a dead participant it fails with
\* AgentNotAlive, otherwise with a participant in a battle it fails with
\* BattleAlreadyStarted, and changes nothing.  Hence an agent in a battle
\* keeps its battle_start_time until a successful resolve clears it.
StartGate ==
    [][ /\ (last'.op \in StartBattleOps /\ \A a \in Range(last'.who) : agent[a].exists)
              => LET who == Range(last'.who)
                     alive == \A a \in who : agent[a].is_alive
                     free == \A a \in who : agent[a].battle_start_time = None
                 IN
                 /\ last'.res = "Ok" <=> (alive /\ free)
                 /\ last'.res = "Ok"
                       => \A a \in who : agent'[a].battle_start_time = now
                 /\ ~alive
                       => last'.res = "AgentNotAlive"
                          /\ UNCHANGED <<game, agent, stake, token, now>>
                 /\ (alive /\ ~free)
                       => last'.res = "BattleAlreadyStarted"
                          /\ UNCHANGED <<game, agent, stake, token, now>>
        /\ \A a \in Agents :
              ( /\ agent[a].battle_start_time # None
                /\ agent'[a].battle_start_time # agent[a].battle_start_time )
                 => /\ last'.op \in ResolveOps /\ last'.res = "Ok"
                    /\ agent'[a].battle_start_time = None
      ]_vars

\* A second start of the battle of agents 1 and 2 was refused because both
\* were still in it, in a game where agent 4 has been killed.
StartGateWitness ==
    /\ last.op = "start_battle_simple" /\ last.who = <<1, 2>>
    /\ last.res = "BattleAlreadyStarted"
    /\ ~agent[4].is_alive
    /\ agent[1].battle_start_time # None /\ agent[2].battle_start_time # None

\* The cooldown of a resolve's shape.
ShapeCooldown(op) ==
    IF op = "resolve_battle_agent_vs_alliance"
    THEN AGENT_VS_ALLIANCE_COOLDOWN
    ELSE IF op = "resolve_battle_simple" THEN SIMPLE_BATTLE_COOLDOWN
    ELSE ALLIANCE_VS_ALLIANCE_COOLDOWN

\* The participants whose battle_start_time a resolve reads: the loser of a
\* simple battle, the single agent, the two leaders.
ReadinessRead(c) ==
    IF c.op = "resolve_battle_simple" THEN {c.who[2]}
    ELSE IF c.op = "resolve_battle_agent_vs_alliance" THEN {c.who[1]}
    ELSE {c.who[1], c.who[3]}

AuthorityOps ==
    ResolveOps \cup {"register_agent", "kill_agent", "update_daily_rewards"}

\* C15 as stated: register_agent, kill_agent, resolve_battle_* and
\* update_daily_rewards, called by a signer other than game.authority, fail
\* with Unauthorized and change no state.
OthersGetUnauthorized ==
    [][ (last'.op \in AuthorityOps /\ last'.by # Authority)
        => /\ last'.res = "Unauthorized"
           /\ UNCHANGED <<game, agent, stake, token, now>> ]_vars

\* C15: the authority's operations.  register_agent, kill_agent,
\* resolve_battle_* and update_daily_rewards, called by a signer other than
\* game.authority, fail and change no state.  The error is Unauthorized for
\* update_daily_rewards, for a resolve_battle_* whose participants are
\* registered, and for a register_agent of an unregistered agent in an active
\* game; a kill_agent of a registered agent fails at the has_one constraint
\* of its agent account.
AuthorityOnly ==
    [][ (last'.op \in AuthorityOps /\ last'.by # Authority)
        => /\ last'.res # "Ok"
           /\ UNCHANGED <<game, agent, stake, token, now>>
           /\ last'.op = "update_daily_rewards" => last'.res = "Unauthorized"
           /\ (last'.op \in ResolveOps /\ \A a \in Range(last'.who) : agent[a].exists)
                 => last'.res = "Unauthorized"
           /\ ( /\ last'.op = "register_agent" /\ game.is_active
                /\ ~agent[last'.who[1]].exists )
                 => last'.res = "Unauthorized"
           /\ (last'.op = "kill_agent" /\ agent[last'.who[1]].exists)
                 => last'.res = "ConstraintHasOne" ]_vars

\* Another signer's kill_agent of the living agent 2 was refused, in a game
\* where the fourth agent is registered and a battle of agents 1 and 3 is an
\* hour old.
AuthorityOnlyWitness ==
    /\ last.op = "kill_agent" /\ last.by # Authority /\ last.res # "Ok"
    /\ agent[2].is_alive
    /\ agent[MAX_AGENTS].exists
    /\ agent[1].battle_start_time # None
    /\ now >= agent[1].battle_start_time + ONE_HOUR

(***************************************************************************)
(* Properties of the winners' side of a settlement.                        *)
(***************************************************************************)
\* C21: the split of the gain over two winners.  In every successful
\* settlement whose winning side has two participants (all participants
\* distinct, the winners holding winner1_balance and winner2_balance before
\* the call), the first winner receives floor(total_lost * winner1_balance /
\* winner_total) and the second winner receives the rest of total_lost, the
\* amount the winning side gains.
TwoWinnerSplit ==
    [][ ( /\ last'.op \in AllianceResolveOps /\ last'.res = "Ok"
          /\ Len(Winners(last')) = 2 /\ Distinct(last'.who) )
        => LET win == Winners(last')
               winner1_balance == token[VaultOf(win[1])]
               winner2_balance == token[VaultOf(win[2])]
               winner_total == winner1_balance + winner2_balance
               total_lost ==
                   token'[VaultOf(win[1])] + token'[VaultOf(win[2])] - winner_total
               winner1_gain ==
                   IF winner_total > 0
                   THEN (total_lost * winner1_balance) \div winner_total ELSE 0
           IN  /\ token'[VaultOf(win[1])] = winner1_balance + winner1_gain
               /\ token'[VaultOf(win[2])] =
                      winner2_balance + (total_lost - winner1_gain) ]_vars

(***************************************************************************)
(* Properties of the alliance registry's operations.                       *)
(***************************************************************************)
\* C22: the refusals of form_alliance.  A form_alliance call that passes the
\* account validation and the alliance gate fails with InvalidAlliancePartner
\* when initiator = target, and with AllianceAlreadyExists when the parties
\* differ and the initiator or the target has alliance_with set; in both
\* cases no agent field and no Alliance record changes.
FormAllianceRefusals ==
    [][ ( /\ last'.op = "form_alliance" /\ last'.by = Authority
          /\ \A a \in Range(last'.who) : agent[a].exists
          /\ validate_alliance(agent[last'.who[1]], now) = "Ok" )
        => LET initiator == last'.who[1]
               target == last'.who[2]
           IN
           /\ initiator = target
                 => /\ last'.res = "InvalidAlliancePartner"
                    /\ UNCHANGED <<game, agent, stake, token, now>>
           /\ ( /\ initiator # target
                /\ \/ agent[initiator].alliance_with # None
                   \/ agent[target].alliance_with # None )
                 => /\ last'.res = "AllianceAlreadyExists"
                    /\ UNCHANGED <<game, agent, stake, token, now>> ]_vars

\* Agent 3 asked for an alliance with agent 1, which is allied with agent 2,
\* and was refused.
FormAllianceRefusalsWitness ==
    /\ last.op = "form_alliance" /\ last.who = <<3, 1>>
    /\ last.res = "AllianceAlreadyExists"
    /\ agent[1].alliance_with = 2 /\ agent[2].alliance_with = 1
    /\ agent[3].alliance_with = None

\* The records of the pair {a, b} in the alliance list, active or not.
PairRecords(alliances, a, b) ==
    {i \in 1 .. Len(alliances) : {alliances[i].agent1, alliances[i].agent2} = {a, b}}

BreakAllianceContract ==
    [][ ( /\ last'.op = "break_alliance" /\ last'.by = Authority
          /\ \A a \in Range(last'.who) : agent[a].exists )
        => LET initiator == last'.who[1]
               target == last'.who[2]
               i == FindActiveAlliance(game.alliances, initiator, target)
           IN
           IF i = 0
           THEN /\ last'.res = "NoAllianceToBreak"
                /\ UNCHANGED <<game, agent, stake, token, now>>
           ELSE /\ last'.res = "Ok"
                /\ \A a \in {initiator, target} :
                      /\ agent'[a].alliance_with = None
                      /\ agent'[a].alliance_timestamp = 0
                /\ game'.alliances =
                      [game.alliances EXCEPT ![i].is_active = FALSE] ]_vars

\* Agent 2 has broken its alliance with agent 1: both are free and the
\* record of the pair is kept, inactive.
BreakAllianceContractWitness ==
    /\ last.op = "break_alliance" /\ last.res = "Ok" /\ last.who = <<2, 1>>
    /\ agent[1].alliance_with = None /\ agent[2].alliance_with = None
    /\ FindAlliance(game.alliances, 1, 2) > 0
    /\ FindActiveAlliance(game.alliances, 1, 2) = 0

(***************************************************************************)
(* Properties of the movement.                                             *)
(***************************************************************************)
\* The cooldown of a move onto a terrain, in seconds.
TerrainDuration(terrain) ==
    IF terrain = "Plain" THEN 3600 ELSE IF terrain = "River" THEN 7200 ELSE 10800

OutOfMap(x, y) == x * x + y * y > (MAP_DIAMETER \div 2) * (MAP_DIAMETER \div 2)

\* C26: the bounds of the map.  A move_agent to a position whose distance
\* from the center exceeds map_diameter / 2 fails with OutOfBounds and leaves
\* the agent's position and cooldowns unchanged.
MoveWithinMap ==
    [][ ( /\ last'.op = "move_agent" /\ last'.by = Authority
          /\ agent[last'.who[1]].is_alive
          /\ now >= agent[last'.who[1]].next_move_time
          /\ OutOfMap(last'.n[1], last'.n[2]) )
        => /\ last'.res = "OutOfBounds"
           /\ UNCHANGED <<game, agent, stake, token, now>> ]_vars

(***************************************************************************)
(* Properties of a withdrawal.                                             *)
(***************************************************************************)
\* C27: the amount of a withdrawal.  A successful unstake_tokens of s shares
\* at vault balance B and agent total_shares S moves exactly floor(s * B / S)
\* tokens from the vault to the staker and decreases the staker's shares and
\* the agent's total_shares by exactly s.
UnstakeExact ==
    [][ (last'.op = "unstake_tokens" /\ last'.res = "Ok")
        => LET a == last'.who[1]
               staker == last'.by
               s == last'.n
               B == token[VaultOf(a)]
               S == agent[a].total_shares
               withdraw_amount == (s * B) \div S
           IN
           /\ S > 0
           /\ token'[VaultOf(a)] = B - withdraw_amount
           /\ token'[WalletOf(staker)] = token[WalletOf(staker)] + withdraw_amount
           /\ stake'[a, staker].shares = stake[a, staker].shares - s
           /\ agent'[a].total_shares = S - s ]_vars

\* A staker has redeemed a part of its shares from a vault whose balance
\* differs from the total of the shares.
UnstakeExactWitness ==
    /\ last.op = "unstake_tokens" /\ last.res = "Ok"
    /\ stake[1, last.by].shares > 0
    /\ token[VaultOf(1)] # agent[1].total_shares

BalancesOf(who) == [i \in 1 .. Len(who) |-> token[VaultOf(who[i])]]

\* The sum of one or two balances.
PairSum(b) == IF Len(b) = 1 THEN b[1] ELSE b[1] + b[2]

\* An arithmetic step of the settlement of the call c leaves the balance
\* domain: the sum of the balances of an alliance, or the losing side's total
\* times percent_lost.
SettlementOverflows(c) ==
    \/ PairSum(BalancesOf(Losers(c))) > U64_MAX
    \/ c.op \in AllianceResolveOps /\ PairSum(BalancesOf(Winners(c))) > U64_MAX
    \/ PairSum(BalancesOf(Losers(c))) * PercentOf(c) > U64_MAX

\* C29: no settlement applies an overflowed amount.  If the sum of the
\* balances of an alliance or the product of the losing total and
\* percent_lost exceeds the largest balance, resolve_battle_* fails and every
\* token balance and every agent field is unchanged; every successful
\* settlement leaves each balance in the balance domain and the total of the
\* balances as it was.
NoWrappedSettlement ==
    [][ last'.op \in ResolveOps
        => /\ SettlementOverflows(last')
                 => /\ last'.res # "Ok"
                    /\ UNCHANGED <<game, agent, stake, token, now>>
           /\ last'.res = "Ok"
                 => /\ \A acc \in Accounts : token'[acc] \in 0 .. U64_MAX
                    /\ SumOver(token', Accounts) = SumOver(token, Accounts) ]_vars

\* A simple battle whose loser holds 40000 was refused a settlement of 50
\* percent, the product being out of the domain, and the battle is still
\* waiting for its resolve an hour after its start.
NoWrappedSettlementWitness ==
    /\ last.op = "resolve_battle_simple" /\ last.res = "InsufficientFunds"
    /\ last.n = 50
    /\ token[VaultOf(3)] * 50 > U64_MAX
    /\ agent[3].battle_start_time # None
    /\ now >= agent[3].battle_start_time + ONE_HOUR

(***************************************************************************)
(* Properties of the reward rate.                                          *)
(***************************************************************************)
\* The reward of time_elapsed seconds at a rate of daily_reward tokens a day
\* for stake_shares of total_shares.
ConfiguredReward(time_elapsed, daily_reward, stake_shares, total_shares) ==
    (time_elapsed * (daily_reward \div SECONDS_PER_DAY) * stake_shares) \div total_shares

\* C30: a successful claim_staking_rewards made while the game's configured
\* daily reward rate is positive pays the staker's share of the pool at that
\* rate for the time elapsed, moves that reward from the rewards vault to the
\* staker and sets last_reward_timestamp to now.
RewardFollowsConfiguredRate ==
    [][ /\ last'.op = "claim_staking_rewards" /\ last'.res = "Ok"
        /\ game.daily_reward_tokens > 0
        => LET a == last'.who[1]
               s == last'.by
               reward ==
                   ConfiguredReward(now - stake[a, s].last_reward_timestamp + 1,
                                    game.daily_reward_tokens,
                                    stake[a, s].shares, agent[a].total_shares)
           IN  /\ token'[WalletOf(s)] = token[WalletOf(s)] + reward
               /\ token'[RewardsVault] = token[RewardsVault] - reward
               /\ stake'[a, s].last_reward_timestamp = now ]_vars

(***************************************************************************)
(* Properties of calls on disjoint agents.                                 *)
(***************************************************************************)
\* The list two calls leave when each of them appends one entry and they are
\* executed in the opposite order: the last two entries change places.
OppositeOrder(list) ==
    IF Len(list) < 2 THEN list
    ELSE SubSeq(list, 1, Len(list) - 2) \o <<list[Len(list)], list[Len(list) - 1]>>

\* The staker has a StakeInfo record with no agent but a.
FirstStakeOf(s, a) == \A b \in Agents \ {a} : ~stake[b, s].is_initialized

\* C31: two calls on disjoint agents and StakeInfo records commute.  Two
\* successful first deposits of two stakers into the vaults of two agents,
\* one after the other at the same timestamp, leave the state that the
\* opposite order leaves, the per-staker stake totals of the game included.
DisjointCallsCommute ==
    [][ /\ last.op = "initialize_stake" /\ last.res = "Ok"
        /\ last'.op = "initialize_stake" /\ last'.res = "Ok"
        /\ last.who[1] # last'.who[1]
        /\ last.by # last'.by
        /\ FirstStakeOf(last.by, last.who[1])
        /\ FirstStakeOf(last'.by, last'.who[1])
        => game'.total_stake_accounts = OppositeOrder(game'.total_stake_accounts) ]_vars

(***************************************************************************)
(* Properties of the stakers' exit and of the shares of a deposit.         *)
(***************************************************************************)
\* C32: a staker can always exit.  An unstake_tokens call of a staker for a
\* number of shares between 1 and the shares it holds of the agent succeeds.
StakerCanExit ==
    [][ /\ last'.op = "unstake_tokens"
        /\ last'.n > 0
        /\ last'.n <= stake[last'.who[1], last'.by].shares
        => last'.res = "Ok" ]_vars

\* C33: a deposit mints at least one share.  Every successful initialize_stake
\* or stake_tokens of a positive amount raises the shares of the staker.
DepositMintsShares ==
    [][ /\ last'.op \in DepositOps /\ last'.res = "Ok"
        /\ last'.n > 0
        => stake'[last'.who[1], last'.by].shares
              > stake[last'.who[1], last'.by].shares ]_vars

(***************************************************************************)
(* Properties of the resolve of later battles.                             *)
(***************************************************************************)
\* C34: resolve sufficiency.  A resolve_battle_* call of the game authority
\* with percent_lost <= 100, made when every participant has battle_start_time
\* set and the shape's cooldown has elapsed since each of them, succeeds, in
\* the second and later battles of the agents as in the first.
ResolveSufficiency ==
    [][ /\ last'.op \in ResolveOps
        /\ last'.by = Authority
        /\ PercentOf(last') <= 100
        /\ \A a \in Range(last'.who) :
              /\ agent[a].battle_start_time # None
              /\ now >= agent[a].battle_start_time + ShapeCooldown(last'.op)
        => last'.res = "Ok" ]_vars

(***************************************************************************)
(* Properties of the shape of a battle.                                    *)
(***************************************************************************)
\* C35: a battle is settled under the timing of its shape.  Where every
\* battle is started by start_battle_simple or
\* start_battle_alliance_vs_alliance, no resolve_battle_* call clears the
\* battle_start_time of an agent before 3600 seconds have passed since it.
ShapeTimingKept ==
    [][ last'.op \in ResolveOps
        => \A a \in Agents :
              ( /\ agent[a].battle_start_time # None
                /\ agent'[a].battle_start_time = None )
              => now >= agent[a].battle_start_time + SIMPLE_BATTLE_COOLDOWN ]_vars

(***************************************************************************)
(* Properties of the tokens of a settlement.                               *)
(***************************************************************************)
\* The token accounts of the participants who.
VaultsOf(who) == {VaultOf(a) : a \in Range(who)}

\* What the accounts of S have lost over the step.
Debited(S) == SumOver(token, S) - SumOver(token', S)

LosersCanPay ==
    [][ ( /\ last'.op \in AllianceResolveOps
          /\ Len(Losers(last')) = 2 /\ Distinct(Losers(last'))
          /\ PercentOf(last') <= 100 )
        => LET lose == Losers(last')
               leader_balance == token[VaultOf(lose[1])]
               partner_balance == token[VaultOf(lose[2])]
               loser_total == leader_balance + partner_balance
               total_lost == LostAmount(loser_total, PercentOf(last'))
               leader_deduction ==
                   LeaderDeduction(total_lost, leader_balance, loser_total)
               partner_deduction == total_lost - leader_deduction
           IN  /\ leader_deduction <= leader_balance
               /\ partner_deduction <= partner_balance
               /\ last'.res # "TokenInsufficientFunds" ]_vars

\* Agents 1 and 2, holding 1 and 1, have lost 50 percent to agent 3: the
\* leader has paid floor(1 * 1 / 2) = 0 and the partner the remainder, 1, all
\* it had.
LosersCanPayWitness ==
    /\ last.op = "resolve_battle_agent_vs_alliance" /\ last.res = "Ok"
    /\ last.who = <<3, 1, 2>> /\ last.n = <<50, TRUE>>
    /\ token[VaultOf(1)] = 1 /\ token[VaultOf(2)] = 0
    /\ token[VaultOf(3)] = 6

(***************************************************************************)
(* Properties of the room for alliances.                                   *)
(***************************************************************************)
\* The records of the alliance list that are active.
ActiveAlliances(alliances) == {i \in 1 .. Len(alliances) : alliances[i].is_active}

\* C38: inactive records never keep a new pair from allying.  A form_alliance
\* call of the game authority between two distinct live agents neither of
\* which has alliance_with set, the initiator's alliance gate being open,
\* succeeds whenever fewer than MAX_ALLIANCES alliances are active.
NewPairCanAlly ==
    [][ ( /\ last'.op = "form_alliance" /\ last'.by = Authority
          /\ last'.who[1] # last'.who[2]
          /\ \A a \in Range(last'.who) :
                /\ agent[a].exists /\ agent[a].is_alive
                /\ agent[a].alliance_with = None
          /\ validate_alliance(agent[last'.who[1]], now) = "Ok"
          /\ Cardinality(ActiveAlliances(game.alliances)) < MAX_ALLIANCES )
        => last'.res = "Ok" ]_vars

(***************************************************************************)
(* Properties of the alliance sides of a battle.                           *)
(***************************************************************************)
\* The <<leader, partner>> sides of the start or resolve call c of a battle
\* with an alliance.
AllianceSides(c) ==
    IF c.op \in {"start_battle_agent_vs_alliance", "resolve_battle_agent_vs_alliance"}
    THEN {<<c.who[2], c.who[3]>>}
    ELSE IF c.op \in {"start_battle_alliance_vs_alliance",
                      "resolve_battle_alliance_vs_alliance"}
    THEN {<<c.who[1], c.who[2]>>, <<c.who[3], c.who[4]>>}
    ELSE {}

\* C39: an alliance side of a battle is a real alliance of distinct agents.
\* A start or resolve of a battle with an alliance succeeds only if its
\* participants are pairwise distinct and the leader and the partner of each
\* side have alliance_with set to each other at the time of the call.
AllianceSidesAreAllied ==
    [][ (AllianceSides(last') # {} /\ last'.res = "Ok")
        => /\ Distinct(last'.who)
           /\ \A side \in AllianceSides(last') :
                 /\ agent[side[1]].alliance_with = side[2]
                 /\ agent[side[2]].alliance_with = side[1] ]_vars

(***************************************************************************)
(* Properties of the time a claim pays for.                                *)
(***************************************************************************)
\* C40: a claim pays only for the time accrued since the staker's last claim.
\* Where every stake is opened by initialize_stake, which sets
\* cooldown_ends_at an hour after the deposit, the reward of a successful
\* claim_staking_rewards at time now is at most the per-second rate times
\* (now - max(time of the deposit, time of the previous claim) + 1) times the
\* staker's share of the agent's total_shares.
ClaimPaysAccruedTime ==
    [][ (last'.op = "claim_staking_rewards" /\ last'.res = "Ok")
        => LET a == last'.who[1]
               info == stake[a, last'.by]
               deposited_at == info.cooldown_ends_at - ONE_HOUR
               since ==
                   IF info.last_reward_timestamp > deposited_at
                   THEN info.last_reward_timestamp ELSE deposited_at
               reward == token'[WalletOf(last'.by)] - token[WalletOf(last'.by)]
           IN  reward * agent[a].total_shares
                  <= REWARD_RATE_PER_SECOND * (now - since + 1) * info.shares ]_vars

=============================================================================
